---------------------------- MODULE Spec2Model ----------------------------
(***************************************************************************)
(* WorkforceOptimizer (src/WorkforceOptimizer-AI.py): process_input runs   *)
(* parse_data, validate_data and, when the error list is empty,            *)
(* generate_report, which calls calculate_metrics once per team.           *)
(*                                                                         *)
(* Python floats are modelled as exact rationals n/d in lowest terms plus  *)
(* the special values NaN, +inf and -inf.  Rounding error of binary        *)
(* floating point is not modelled; the special values, the comparisons     *)
(* that are false on NaN, and ZeroDivisionError on a zero divisor are.     *)
(***************************************************************************)
EXTENDS Integers, Sequences, FiniteSets, TLC

(***************************************************************************)
(* Bounds of the model.                                                    *)
(***************************************************************************)
MaxTeams == 2

(***************************************************************************)
(* Python float values.                                                    *)
(***************************************************************************)
Abs(x) == IF x < 0 THEN -x ELSE x

RECURSIVE GCD(_, _)
GCD(a, b) == IF b = 0 THEN a ELSE GCD(b, a % b)

\* the rational n/d (d # 0) in lowest terms with a positive denominator
Fin(n, d) ==
    LET g == GCD(Abs(n), Abs(d))
        s == IF d < 0 THEN -1 ELSE 1
    IN  [k |-> "fin", n |-> (s * n) \div g, d |-> (s * d) \div g]

NaN    == [k |-> "nan", n |-> 0, d |-> 1]
PosInf == [k |-> "inf", n |-> 1, d |-> 1]
NegInf == [k |-> "inf", n |-> -1, d |-> 1]
Int2F(i) == Fin(i, 1)

IsNaN(x)    == x.k = "nan"
IsInf(x)    == x.k = "inf"
IsFinite(x) == x.k = "fin"
IsZero(x)   == x.k = "fin" /\ x.n = 0
Sign(x)     == IF x.n > 0 THEN 1 ELSE IF x.n < 0 THEN -1 ELSE 0
InfOf(s)    == IF s > 0 THEN PosInf ELSE NegInf

\* x < y, x <= y, x >= y on floats: every comparison with NaN is false
FLt(x, y) ==
    IF IsNaN(x) \/ IsNaN(y) THEN FALSE
    ELSE IF IsInf(x) THEN x.n < 0 /\ ~(IsInf(y) /\ y.n < 0)
    ELSE IF IsInf(y) THEN y.n > 0
    ELSE x.n * y.d < y.n * x.d

FLe(x, y) ==
    IF IsNaN(x) \/ IsNaN(y) THEN FALSE
    ELSE IF IsInf(x) THEN x.n < 0 \/ (IsInf(y) /\ y.n > 0)
    ELSE IF IsInf(y) THEN y.n > 0
    ELSE x.n * y.d <= y.n * x.d

FGt(x, y) == FLt(y, x)
FGe(x, y) == FLe(y, x)

\* float.is_integer(): False for NaN and the infinities
is_integer(x) == IsFinite(x) /\ x.d = 1

FNeg(x) == IF IsNaN(x) THEN NaN ELSE [x EXCEPT !.n = -x.n]

FAdd(x, y) ==
    IF IsNaN(x) \/ IsNaN(y) THEN NaN
    ELSE IF IsInf(x) /\ IsInf(y) THEN (IF x.n = y.n THEN x ELSE NaN)
    ELSE IF IsInf(x) THEN x
    ELSE IF IsInf(y) THEN y
    ELSE Fin(x.n * y.d + y.n * x.d, x.d * y.d)

FSub(x, y) == FAdd(x, FNeg(y))

FMul(x, y) ==
    IF IsNaN(x) \/ IsNaN(y) THEN NaN
    ELSE IF IsInf(x) \/ IsInf(y)
         THEN (IF IsZero(x) \/ IsZero(y) THEN NaN ELSE InfOf(Sign(x) * Sign(y)))
    ELSE Fin(x.n * y.n, x.d * y.d)

\* x / y for a divisor that is not zero (a zero divisor raises, see Raises)
FDiv(x, y) ==
    IF IsNaN(x) \/ IsNaN(y) THEN NaN
    ELSE IF IsInf(x) THEN (IF IsInf(y) THEN NaN ELSE InfOf(Sign(x) * Sign(y)))
    ELSE IF IsInf(y) THEN Int2F(0)
    ELSE Fin(x.n * y.d, x.d * y.n)


(***************************************************************************)
(* Schema: the field lists set up by __init__.                             *)
(***************************************************************************)
valid_fields ==
    << "team_id", "current_staff", "queries_per_day", "average_query_time",
       "shift_hours", "available_capacity", "remote_infrastructure_efficiency" >>

numeric_fields ==
    << "current_staff", "queries_per_day", "average_query_time",
       "shift_hours", "available_capacity", "remote_infrastructure_efficiency" >>

positive_fields ==
    << "current_staff", "queries_per_day", "average_query_time", "shift_hours" >>

percentage_fields == << "available_capacity", "remote_infrastructure_efficiency" >>

Range(s) == {s[i] : i \in DOMAIN s}

(***************************************************************************)
(* Raw values as the parser hands them over.  t is the Python type of the  *)
(* value: "num" (a JSON number), "str" (a JSON string or a CSV cell),      *)
(* "null" (None: a JSON null or the restval of a short CSV row) and "list" *)
(* (a JSON array, or the restkey list of a long CSV row).  s is the text   *)
(* of a number or the content of a string.                                 *)
(***************************************************************************)
Num(s) == [t |-> "num", s |-> s]
Str(s) == [t |-> "str", s |-> s]
Null   == [t |-> "null", s |-> ""]
List   == [t |-> "list", s |-> ""]

\* the texts float() converts, with their values; float() strips blanks and
\* reads "nan", "inf" and "Infinity" in any case; every other text of the
\* model ("abc", "") makes float() raise ValueError
TextValue ==
    ("0" :> Int2F(0)) @@ ("-5" :> Int2F(-5)) @@ ("2.5" :> Fin(5, 2)) @@
    ("3.0" :> Int2F(3)) @@ ("4" :> Int2F(4)) @@ (" 7 " :> Int2F(7)) @@
    ("8" :> Int2F(8)) @@ ("10" :> Int2F(10)) @@ ("11" :> Int2F(11)) @@
    ("50" :> Int2F(50)) @@ ("60" :> Int2F(60)) @@ ("70" :> Int2F(70)) @@
    ("80" :> Int2F(80)) @@ ("100" :> Int2F(100)) @@ ("101" :> Int2F(101)) @@
    ("120" :> Int2F(120)) @@ ("150" :> Int2F(150)) @@ ("300" :> Int2F(300)) @@
    ("NaN" :> NaN) @@ ("nan" :> NaN) @@
    ("Infinity" :> PosInf) @@ ("inf" :> PosInf) @@ ("-inf" :> NegInf)

\* float(v): the value, or the exception float() raises
py_float(v) ==
    IF v.t \in {"null", "list"} THEN [exc |-> "TypeError", val |-> NaN]
    ELSE IF v.s \in DOMAIN TextValue THEN [exc |-> "None", val |-> TextValue[v.s]]
    ELSE [exc |-> "ValueError", val |-> NaN]

(***************************************************************************)
(* detect_format and parse_data.  The input text is modelled by what the   *)
(* two functions look at: whether it starts with '{' and ends with '}',    *)
(* whether it holds a comma and a newline, whether json.loads or the csv   *)
(* reader accept it, and what they read.                                   *)
(***************************************************************************)
detect_format(data_str) ==
    IF data_str.braced THEN "json"
    ELSE IF data_str.commaNL THEN "csv"
    ELSE "None"

\* one row of csv.DictReader: header[j] -> cell j, None for the cells a
\* short row lacks, and the cells beyond the header as a list under None
DictRow(header, cells) ==
    LET keys == Range(header) \cup (IF Len(cells) > Len(header) THEN {"None"} ELSE {})
        idx(h) == CHOOSE j \in DOMAIN header : header[j] = h
    IN  [h \in keys |->
            IF h = "None" THEN List
            ELSE IF idx(h) <= Len(cells) THEN Str(cells[idx(h)])
            ELSE Null]

parse_data(data_str) ==
    LET data_format == detect_format(data_str)
    IN  IF data_format = "json"
        THEN IF ~data_str.readable
             THEN [teams |-> << >>, error |-> "ERROR: Invalid JSON format."]
             ELSE IF data_str.hasTeams
                  THEN [teams |-> data_str.objs, error |-> "None"]
                  ELSE [teams |-> << data_str.objs[1] >>, error |-> "None"]
        ELSE IF data_format = "csv"
        THEN IF ~data_str.readable
             THEN [teams |-> << >>, error |-> "ERROR: Invalid CSV format."]
             ELSE [teams |-> [i \in DOMAIN data_str.cells |->
                                 DictRow(data_str.header, data_str.cells[i])],
                   error |-> "None"]
        ELSE [teams |-> << >>,
              error |-> "ERROR: Invalid data format. Please provide data in CSV or JSON format."]


(***************************************************************************)
(* validate_data.  An error message is a record of its parts:              *)
(*   NoTeams       "ERROR: No teams found in the input data."              *)
(*   Missing       "ERROR: Missing required field '<field>' in row <row>." *)
(*   InvalidValue  "ERROR: Invalid value for '<field>' in row <row>.       *)
(*                  Expected <expect>."                                    *)
(*   InvalidType   "ERROR: Invalid data type for '<field>' in row <row>.   *)
(*                  Expected a numeric value."                             *)
(* and a report line is a record of its tag and its parts.                 *)
(***************************************************************************)
Err(kind, field, row, expect) ==
    [kind |-> kind, field |-> field, row |-> row, expect |-> expect]

NoErr == Err("None", "", 0, "")

Line(tag, field, text, n, err) ==
    [tag |-> tag, field |-> field, text |-> text, n |-> n, err |-> err]

Heading(tag) == Line(tag, "", "", 0, NoErr)

RECURSIVE Concat(_)
Concat(ss) == IF ss = << >> THEN << >> ELSE Head(ss) \o Concat(Tail(ss))

\* lines 72-80: the presence line of one field and its Missing errors
PresenceLine(teams, field) ==
    IF \A i \in DOMAIN teams : field \in DOMAIN teams[i]
    THEN Line("presence", field, "present", 0, NoErr)
    ELSE Line("presence", field, "missing", 0, NoErr)

\* only the first row that lacks the field is reported
MissingErrors_FirstRowOnly(teams, field) ==
    LET lacking == {i \in DOMAIN teams : field \notin DOMAIN teams[i]}
    IN  IF lacking = {} THEN << >>
        ELSE << Err("Missing", field, CHOOSE i \in lacking : \A k \in lacking : i <= k, "") >>

MissingErrors(teams, field) ==
    Concat([i \in DOMAIN teams |->
               IF field \notin DOMAIN teams[i]
               THEN << Err("Missing", field, i, "") >>
               ELSE << >>])

RequiredFieldErrors(teams) ==
    Concat([f \in DOMAIN valid_fields |-> MissingErrors(teams, valid_fields[f])])

\* lines 91-103: the range rule of one numeric field, on a converted value
ViolatesRule(field, value) ==
    IF field \in {"current_staff", "queries_per_day"}
    THEN ~is_integer(value) \/ FLe(value, Int2F(0))
    ELSE IF field \in {"average_query_time", "shift_hours"}
    THEN FLe(value, Int2F(0))
    ELSE IF field \in Range(percentage_fields)
    THEN FLt(value, Int2F(0)) \/ FGt(value, Int2F(100))
    ELSE FALSE

Expected(field) ==
    IF field \in {"current_staff", "queries_per_day"} THEN "positive integer"
    ELSE IF field \in {"average_query_time", "shift_hours"} THEN "positive number"
    ELSE "value between 0 and 100"

\* lines 86-106: the errors one (row, field) pair appends; a TypeError of
\* float() is not caught there and is accounted for in validate_data
FieldErrors(team, i, field) ==
    IF field \notin DOMAIN team THEN << >>
    ELSE LET c == py_float(team[field])
         IN  IF c.exc = "ValueError"
             THEN << Err("InvalidType", field, i, "a numeric value") >>
             ELSE IF c.exc = "None" /\ ViolatesRule(field, c.val)
             THEN << Err("InvalidValue", field, i, Expected(field)) >>
             ELSE << >>

\* the two loops of lines 84-85 exchanged: fields outside, rows inside
TypeValueErrors_FieldMajor(teams) ==
    Concat([f \in DOMAIN numeric_fields |->
               Concat([i \in DOMAIN teams |->
                          FieldErrors(teams[i], i, numeric_fields[f])])])

TypeValueErrors(teams) ==
    Concat([i \in DOMAIN teams |->
               Concat([f \in DOMAIN numeric_fields |->
                          FieldErrors(teams[i], i, numeric_fields[f])])])

\* the except clause of line 105 catches ValueError only
UncaughtInValidate(teams) ==
    \E i \in DOMAIN teams : \E f \in DOMAIN numeric_fields :
        /\ numeric_fields[f] \in DOMAIN teams[i]
        /\ py_float(teams[i][numeric_fields[f]]).exc = "TypeError"

\* lines 109-125: the rollup line of one field looks for the text
\* "Invalid value for '<field>'" in the errors
RollupLine(field, errors) ==
    IF ~ \E j \in DOMAIN errors :
            errors[j].kind = "InvalidValue" /\ errors[j].field = field
    THEN Line("rollup", field, "validated", 0, NoErr)
    ELSE Line("rollup", field, "not valid", 0, NoErr)

\* positive_fields[:2], positive_fields[2:] and percentage_fields, in turn
RollupFields == positive_fields \o percentage_fields

\* lines 127-134
SummaryLines(errors) ==
    IF errors = << >>
    THEN << Heading("## Validation Summary:"), Heading("Data validation is successful!") >>
    ELSE << Heading("## Validation Summary:"), Heading("Validation failed with the following errors:") >>
         \o [j \in DOMAIN errors |-> Line("error", "", "", 0, errors[j])]
         \o << Heading("Please correct and resubmit this data again.") >>

\* lines 61-68
StructureLines(teams) ==
    << Heading("# Data Validation Report"),
       Heading("## Data Structure Check:"),
       Line("Number of teams", "", "", Len(teams), NoErr),
       Line("Number of fields per record", "", "",
            IF teams # << >> THEN Cardinality(DOMAIN teams[1]) ELSE 0, NoErr) >>

\* lines 72-134: the lines the two passes, the rollup and the summary append
PassLines(teams, errors) ==
    << Heading("## Required Fields Check:") >>
    \o [f \in DOMAIN valid_fields |-> PresenceLine(teams, valid_fields[f])]
    \o << Heading("## Data Type and Value Validation:") >>
    \o [f \in DOMAIN RollupFields |-> RollupLine(RollupFields[f], errors)]
    \o SummaryLines(errors)

\* validate_data without the return of line 70
validate_data_NoEarlyReturn(teams) ==
    IF UncaughtInValidate(teams)
    THEN [raised |-> "TypeError", report |-> << >>, errors |-> << >>]
    ELSE LET errors == (IF teams = << >> THEN << Err("NoTeams", "", 0, "") >> ELSE << >>)
                       \o RequiredFieldErrors(teams) \o TypeValueErrors(teams)
         IN  [raised |-> "None",
              report |-> StructureLines(teams) \o PassLines(teams, errors),
              errors |-> errors]

validate_data(teams) ==
    IF teams = << >>
    THEN [raised |-> "None",
          report |-> StructureLines(teams),
          errors |-> << Err("NoTeams", "", 0, "") >>]
    ELSE IF UncaughtInValidate(teams)
    THEN [raised |-> "TypeError", report |-> << >>, errors |-> << >>]
    ELSE LET errors == RequiredFieldErrors(teams) \o TypeValueErrors(teams)
         IN  [raised |-> "None",
              report |-> StructureLines(teams) \o PassLines(teams, errors),
              errors |-> errors]

(***************************************************************************)
(* calculate_metrics.  The result is the returned dict, or the exception   *)
(* the call raises (raised # "None").                                      *)
(***************************************************************************)
Maintain ==
    "the team's scheduling is optimal. The recommendation is to maintain the current workforce distribution."

Adjust ==
    "the team's scheduling requires adjustments. Consider reassigning workforce, adjusting shift timings, or enhancing remote infrastructure."

\* the decision without the condition on the ratio
is_optimal_NoRatio(composite_score, staffing_efficiency_ratio, utilization_rate) ==
    /\ FGe(composite_score, Int2F(60))
    /\ FLe(utilization_rate, Int2F(90))

\* lines 176-178
is_optimal(composite_score, staffing_efficiency_ratio, utilization_rate) ==
    /\ FGe(composite_score, Int2F(60))
    /\ FLe(Fin(9, 10), staffing_efficiency_ratio)
    /\ FLe(staffing_efficiency_ratio, Fin(11, 10))
    /\ FLe(utilization_rate, Int2F(90))

\* the two status texts exchanged
status_Exchanged(optimal) == IF optimal THEN "Needs Adjustment" ELSE "Optimal"

\* line 180
status(optimal) == IF optimal THEN "Optimal" ELSE "Needs Adjustment"

\* lines 182-191: the clause of the recommendation sentence
recommendation(optimal) == IF optimal THEN Maintain ELSE Adjust

Raise(exc) ==
    [raised |-> exc, team_id |-> "",
     current_staff |-> NaN, queries_per_day |-> NaN, average_query_time |-> NaN,
     shift_hours |-> NaN, available_capacity |-> NaN,
     remote_infrastructure_efficiency |-> NaN,
     workload_step1 |-> NaN, workload_per_agent |-> NaN,
     capacity_step1 |-> NaN, agent_capacity |-> NaN, utilization_rate |-> NaN,
     capacity_surplus_percentage |-> NaN, weighted_surplus |-> NaN,
     weighted_efficiency |-> NaN, weighted_utilization |-> NaN,
     composite_score |-> NaN, required_staff |-> NaN,
     staffing_efficiency_ratio |-> NaN, status |-> "", recommendation |-> ""]

\* line 141: the first numeric field of the team, in schema order, whose
\* conversion raises (0 when none does)
FirstBadConversion(team) ==
    LET bad == {f \in DOMAIN numeric_fields :
                   /\ numeric_fields[f] \in DOMAIN team
                   /\ py_float(team[numeric_fields[f]]).exc # "None"}
    IN  IF bad = {} THEN 0 ELSE CHOOSE f \in bad : \A g \in bad : f <= g

\* The body of calculate_metrics, one definition per statement.  m holds
\* the locals computed so far; once a statement has raised, the statements
\* after it do nothing.
Convert(team) ==
    LET bad == FirstBadConversion(team)
    IN  IF bad # 0 THEN Raise(py_float(team[numeric_fields[bad]]).exc)
        ELSE Raise("None")

\* team_data[k]: KeyError when the team has no key k
Read(m, team, k) ==
    IF m.raised # "None" THEN m
    ELSE IF k \notin DOMAIN team THEN [m EXCEPT !.raised = "KeyError"]
    ELSE IF k = "team_id" THEN [m EXCEPT !.team_id = team[k].s]
    ELSE [m EXCEPT ![k] = py_float(team[k]).val]

\* x / y: ZeroDivisionError on a zero divisor, whatever x is
Quotient(m, k, x, y) ==
    IF IsZero(y) THEN [m EXCEPT !.raised = "ZeroDivisionError"]
    ELSE [m EXCEPT ![k] = FDiv(x, y)]

WorkloadStep1(m) ==
    IF m.raised # "None" THEN m
    ELSE [m EXCEPT !.workload_step1 = FMul(m.queries_per_day, m.average_query_time)]

WorkloadPerAgent(m) ==
    IF m.raised # "None" THEN m
    ELSE Quotient(m, "workload_per_agent", m.workload_step1, m.current_staff)

CapacityStep1(m) ==
    IF m.raised # "None" THEN m
    ELSE [m EXCEPT !.capacity_step1 = FMul(m.shift_hours, Int2F(60))]

AgentCapacity(m) ==
    IF m.raised # "None" THEN m
    ELSE [m EXCEPT !.agent_capacity =
              FMul(m.capacity_step1, FDiv(m.available_capacity, Int2F(100)))]

UtilizationRate(m) ==
    IF m.raised # "None" THEN m
    ELSE LET q == Quotient(m, "utilization_rate", m.workload_per_agent, m.agent_capacity)
         IN  IF q.raised # "None" THEN q
             ELSE [q EXCEPT !.utilization_rate = FMul(q.utilization_rate, Int2F(100))]

CapacitySurplusPercentage(m) ==
    IF m.raised # "None" THEN m
    ELSE LET q == Quotient(m, "capacity_surplus_percentage",
                           FSub(m.agent_capacity, m.workload_per_agent), m.agent_capacity)
         IN  IF q.raised # "None" THEN q
             ELSE [q EXCEPT !.capacity_surplus_percentage =
                       FMul(q.capacity_surplus_percentage, Int2F(100))]

WeightedSurplus(m) ==
    IF m.raised # "None" THEN m
    ELSE [m EXCEPT !.weighted_surplus = FMul(m.capacity_surplus_percentage, Fin(1, 2))]

WeightedEfficiency(m) ==
    IF m.raised # "None" THEN m
    ELSE [m EXCEPT !.weighted_efficiency =
              FMul(m.remote_infrastructure_efficiency, Fin(3, 10))]

\* the utilization weighted as it is, not its complement to 100
WeightedUtilization_NoComplement(m) ==
    IF m.raised # "None" THEN m
    ELSE [m EXCEPT !.weighted_utilization = FMul(m.utilization_rate, Fin(1, 5))]

WeightedUtilization(m) ==
    IF m.raised # "None" THEN m
    ELSE [m EXCEPT !.weighted_utilization =
              FMul(FSub(Int2F(100), m.utilization_rate), Fin(1, 5))]

CompositeScore(m) ==
    IF m.raised # "None" THEN m
    ELSE [m EXCEPT !.composite_score =
              FAdd(FAdd(m.weighted_surplus, m.weighted_efficiency), m.weighted_utilization)]

\* the workload of one agent in place of the workload of the team
RequiredStaff_PerAgent(m) ==
    IF m.raised # "None" THEN m
    ELSE Quotient(m, "required_staff", m.workload_per_agent, m.agent_capacity)

RequiredStaff(m) ==
    IF m.raised # "None" THEN m
    ELSE Quotient(m, "required_staff",
                  FMul(m.queries_per_day, m.average_query_time), m.agent_capacity)

StaffingEfficiencyRatio(m) ==
    IF m.raised # "None" THEN m
    ELSE Quotient(m, "staffing_efficiency_ratio", m.current_staff, m.required_staff)

Recommend(m) ==
    IF m.raised # "None" THEN m
    ELSE LET optimal == is_optimal(m.composite_score, m.staffing_efficiency_ratio,
                                   m.utilization_rate)
         IN  [m EXCEPT !.status = status(optimal),
                       !.recommendation = recommendation(optimal)]

calculate_metrics(team) ==
    LET s01 == Read(Read(Read(Convert(team), team, "queries_per_day"),
                         team, "average_query_time"), team, "current_staff")
        s02 == WorkloadPerAgent(WorkloadStep1(s01))
        s03 == Read(Read(s02, team, "shift_hours"), team, "available_capacity")
        s04 == UtilizationRate(AgentCapacity(CapacityStep1(s03)))
        s05 == Read(s04, team, "remote_infrastructure_efficiency")
        s06 == WeightedEfficiency(WeightedSurplus(CapacitySurplusPercentage(s05)))
        s07 == CompositeScore(WeightedUtilization(s06))
        s08 == StaffingEfficiencyRatio(RequiredStaff(s07))
    IN  Read(Recommend(s08), team, "team_id")

(***************************************************************************)
(* The inputs of the model: JSON and CSV texts as parse_data reads them.   *)
(***************************************************************************)
Obj(id, cs, q, avg, sh, ac, eff) ==
    ("team_id" :> Str(id)) @@ ("current_staff" :> cs) @@ ("queries_per_day" :> q) @@
    ("average_query_time" :> avg) @@ ("shift_hours" :> sh) @@
    ("available_capacity" :> ac) @@ ("remote_infrastructure_efficiency" :> eff)

With(team, k, v) == [team EXCEPT ![k] = v]
Without(team, k) == [j \in DOMAIN team \ {k} |-> team[j]]

\* the first team of the sample data of main()
Omega == Obj("TeamOmega", Num("10"), Num("150"), Num("3.0"), Num("8"), Num("70"), Num("80"))
\* composite_score = 60, utilization_rate = 40
Edge  == Obj("TeamEdge", Num("10"), Num("120"), Num("4"), Num("4"), Num("50"), Num("60"))
\* staffing_efficiency_ratio = 1.1
Tight == Obj("TeamTight", Num("11"), Num("300"), Num("4"), Num("4"), Num("50"), Num("100"))
ZeroCap == With(Omega, "available_capacity", Num("0"))
InfZero == With(ZeroCap, "shift_hours", Num("Infinity"))
MultiBad ==
    Without(With(With(With(Omega, "current_staff", Str("abc")),
                      "queries_per_day", Num("0")),
                 "available_capacity", Num("101")),
            "average_query_time")

CoreRows == {Omega, Edge, Tight, ZeroCap, InfZero, MultiBad}

RawValues ==
    { Num("0"), Num("-5"), Num("2.5"), Num("100"), Num("101"), Num("NaN"),
      Num("Infinity"), Str("abc"), Str(""), Str("inf"), Str("-inf"), Str(" 7 "),
      Null, List }

WideRows ==
    {With(Omega, k, v) : k \in Range(numeric_fields), v \in RawValues}
    \cup {Without(Omega, k) : k \in Range(valid_fields)}

Rows == CoreRows \cup WideRows

\* the batches of n rows with at most one row outside CoreRows
Batches(n) ==
    IF n = 0 THEN {<< >>}
    ELSE {[i \in 1..n |-> IF i = p THEN w ELSE c[i]] :
             p \in 1..n, w \in Rows, c \in [1..n -> CoreRows]}

Doc(braced, commaNL, readable, hasTeams, objs, header, cells) ==
    [braced |-> braced, commaNL |-> commaNL, readable |-> readable,
     hasTeams |-> hasTeams, objs |-> objs, header |-> header, cells |-> cells]

JsonDocs ==
    {Doc(TRUE, TRUE, TRUE, TRUE, b, << >>, << >>) :
        b \in UNION {Batches(n) : n \in 0..MaxTeams}}
    \cup {Doc(TRUE, TRUE, TRUE, FALSE, << r >>, << >>, << >>) : r \in CoreRows}
    \cup {Doc(TRUE, FALSE, FALSE, FALSE, << >>, << >>, << >>)}

OmegaCells == << "TeamOmega", "10", "150", "3.0", "8", "70", "80" >>

CsvRows ==
    { OmegaCells,
      SubSeq(OmegaCells, 1, 3),
      << "TeamOmega", "abc", "150", "3.0", "8", "101", "80" >>,
      << "TeamOmega", "10", "150", "3.0", "8", "0", "80" >>,
      OmegaCells \o << "extra" >> }

CsvDocs ==
    {Doc(FALSE, TRUE, TRUE, FALSE, << >>, h, c) :
        h \in {valid_fields, SubSeq(valid_fields, 1, 6)},
        c \in UNION {[1..n -> CsvRows] : n \in 1..MaxTeams}}
    \cup {Doc(FALSE, TRUE, FALSE, FALSE, << >>, valid_fields, << OmegaCells >>)}

\* a text that is neither: a CSV header alone, or any other text
OtherDocs ==
    {Doc(FALSE, FALSE, TRUE, FALSE, << >>, valid_fields, << >>)}

Docs == JsonDocs \cup CsvDocs \cup OtherDocs

(***************************************************************************)
(* process_input as a state machine.                                       *)
(***************************************************************************)
VARIABLES
    input_data,         \* the argument of process_input
    pc,                 \* "parse", "validate", "gate", "calc", "done", "raised"
    teams,              \* the records parse_data returned
    validation_report,  \* what validate_data returned
    validation_errors,
    team_results,       \* the results generate_report has collected
    calc_calls,         \* how many times calculate_metrics was called
    output,             \* what process_input returned
    raised,             \* the exception that left the call
    rating,             \* the argument of handle_feedback
    feedback            \* what handle_feedback returned

vars == << input_data, pc, teams, validation_report, validation_errors,
           team_results, calc_calls, output, raised, rating, feedback >>

\* a rating: t is its Python type, v the value of a number, s the content
\* of a string
Rating(t, s, v) == [t |-> t, s |-> s, v |-> v]

\* no call of handle_feedback
NoRating == Rating("unset", "", NaN)

Out(kind, error, validation, results) ==
    [kind |-> kind, error |-> error, validation |-> validation, results |-> results]

Init ==
    /\ input_data \in Docs
    /\ pc = "parse"
    /\ teams = << >>
    /\ validation_report = << >>
    /\ validation_errors = << >>
    /\ team_results = << >>
    /\ calc_calls = 0
    /\ output = Out("None", "", << >>, << >>)
    /\ raised = "None"
    /\ rating = NoRating
    /\ feedback = ""

\* a single error passes the gate
HasErrors_MoreThanOne(errors) == Len(errors) > 1

\* line 334: a non-empty list is true
HasErrors(errors) == errors # << >>

\* lines 326-329
ParseData ==
    /\ pc = "parse"
    /\ LET r == parse_data(input_data)
       IN  \/ /\ r.error # "None"
              /\ output' = Out("error", r.error, << >>, << >>)
              /\ pc' = "done"
              /\ UNCHANGED teams
           \/ /\ r.error = "None"
              /\ teams' = r.teams
              /\ pc' = "validate"
              /\ UNCHANGED output
    /\ UNCHANGED << rating, feedback >>
    /\ UNCHANGED << input_data, validation_report, validation_errors,
                    team_results, calc_calls, raised >>

\* lines 331-332
ValidateData ==
    /\ pc = "validate"
    /\ LET r == validate_data(teams)
       IN  \/ /\ r.raised # "None"
              /\ raised' = r.raised
              /\ pc' = "raised"
              /\ UNCHANGED << validation_report, validation_errors >>
           \/ /\ r.raised = "None"
              /\ validation_report' = r.report
              /\ validation_errors' = r.errors
              /\ pc' = "gate"
              /\ UNCHANGED raised
    /\ UNCHANGED << rating, feedback >>
    /\ UNCHANGED << input_data, teams, team_results, calc_calls, output >>

\* lines 334-335
ReturnValidationReport ==
    /\ pc = "gate"
    /\ HasErrors(validation_errors)
    /\ output' = Out("validation", "", validation_report, << >>)
    /\ pc' = "done"
    /\ UNCHANGED << rating, feedback >>
    /\ UNCHANGED << input_data, teams, validation_report, validation_errors,
                    team_results, calc_calls, raised >>

\* line 337: generate_report is entered
BeginReport ==
    /\ pc = "gate"
    /\ ~HasErrors(validation_errors)
    /\ pc' = "calc"
    /\ UNCHANGED << rating, feedback >>
    /\ UNCHANGED << input_data, teams, validation_report, validation_errors,
                    team_results, calc_calls, output, raised >>

\* line 233: one step of the list comprehension
CalculateMetrics ==
    /\ pc = "calc"
    /\ Len(team_results) < Len(teams)
    /\ calc_calls' = calc_calls + 1
    /\ LET r == calculate_metrics(teams[Len(team_results) + 1])
       IN  \/ /\ r.raised # "None"
              /\ raised' = r.raised
              /\ pc' = "raised"
              /\ UNCHANGED team_results
           \/ /\ r.raised = "None"
              /\ team_results' = Append(team_results, r)
              /\ pc' = "calc"
              /\ UNCHANGED raised
    /\ UNCHANGED << rating, feedback >>
    /\ UNCHANGED << input_data, teams, validation_report, validation_errors, output >>

\* lines 235-322 and 338: the report of every result, after the validation report
FinishReport ==
    /\ pc = "calc"
    /\ Len(team_results) = Len(teams)
    /\ output' = Out("full", "", validation_report, team_results)
    /\ pc' = "done"
    /\ UNCHANGED << rating, feedback >>
    /\ UNCHANGED << input_data, teams, validation_report, validation_errors,
                    team_results, calc_calls, raised >>

Next ==
    \/ ParseData
    \/ ValidateData
    \/ ReturnValidationReport
    \/ BeginReport
    \/ CalculateMetrics
    \/ FinishReport

Spec == Init /\ [][Next]_vars

TypeOK ==
    /\ pc \in {"parse", "validate", "gate", "calc", "done", "raised"}
    /\ calc_calls \in 0..MaxTeams
    /\ Len(team_results) <= Len(teams)


(***************************************************************************)
(* handle_feedback, called on its own with a rating of any type.           *)
(***************************************************************************)
MaxRating == 20

Ack1 ==
    "We are very sorry that the analysis did not meet your expectations. Could you please provide specific feedback on what went wrong?"

Ack2 ==
    "Thank you for your feedback. We appreciate your input and would love to know more details on how we can improve."

Ack3 ==
    "Thank you for your feedback. We are committed to continuous improvement. Could you share what aspects need enhancement?"

Ack4 == "Thank you for your positive feedback! We're glad the analysis was helpful."

Ack5 ==
    "Thank you for your excellent feedback! We are thrilled to have met your expectations and appreciate your input."

Reprompt == "Please rate this analysis on a scale of 1-5."

\* the texts int() converts, with their values; int() strips blanks; every
\* other text of the model ("abc", "", "4.7", "five") raises ValueError
IntText ==
    ("0" :> 0) @@ ("3" :> 3) @@ (" 3 " :> 3) @@ ("5" :> 5) @@ ("10" :> 10) @@ ("-1" :> -1)

\* int(x) of a finite float: truncation towards zero
Truncate(x) == IF x.n >= 0 THEN x.n \div x.d ELSE -((-x.n) \div x.d)

\* int(rating): the value, or the exception int() raises
py_int(r) ==
    IF r.t \in {"int", "bool"} THEN [exc |-> "None", val |-> r.v.n]
    ELSE IF r.t = "float"
    THEN IF IsNaN(r.v) THEN [exc |-> "ValueError", val |-> 0]
         ELSE IF IsInf(r.v) THEN [exc |-> "OverflowError", val |-> 0]
         ELSE [exc |-> "None", val |-> Truncate(r.v)]
    ELSE IF r.t = "str"
    THEN IF r.s \in DOMAIN IntText THEN [exc |-> "None", val |-> IntText[r.s]]
         ELSE [exc |-> "ValueError", val |-> 0]
    ELSE [exc |-> "TypeError", val |-> 0]

\* lines 371-386
handle_feedback(r) ==
    LET c == py_int(r)
    IN  IF c.exc # "None" THEN [raised |-> c.exc, text |-> ""]
        ELSE [raised |-> "None",
              text |-> IF c.val = 1 THEN Ack1
                       ELSE IF c.val = 2 THEN Ack2
                       ELSE IF c.val = 3 THEN Ack3
                       ELSE IF c.val = 4 THEN Ack4
                       ELSE IF c.val = 5 THEN Ack5
                       ELSE Reprompt]

Ratings ==
    {Rating("int", "", Int2F(i)) : i \in -MaxRating..MaxRating}
    \cup {Rating("float", "", Fin(k, 10)) : k \in {-5, 5, 10, 30, 47, 51, 59}}
    \cup {Rating("float", "", NaN), Rating("float", "", PosInf)}
    \cup {Rating("str", t, NaN) :
            t \in {"abc", "", "4.7", "five", "0", "3", " 3 ", "5", "10", "-1"}}
    \cup {Rating("bool", "", Int2F(1)), Rating("null", "", NaN), Rating("list", "", NaN)}

InitFeedback ==
    /\ input_data \in OtherDocs
    /\ pc = "feedback"
    /\ teams = << >>
    /\ validation_report = << >>
    /\ validation_errors = << >>
    /\ team_results = << >>
    /\ calc_calls = 0
    /\ output = Out("None", "", << >>, << >>)
    /\ raised = "None"
    /\ rating \in Ratings
    /\ feedback = ""

HandleFeedback ==
    /\ pc = "feedback"
    /\ LET r == handle_feedback(rating)
       IN  \/ /\ r.raised # "None"
              /\ raised' = r.raised
              /\ pc' = "raised"
              /\ UNCHANGED feedback
           \/ /\ r.raised = "None"
              /\ feedback' = r.text
              /\ pc' = "done"
              /\ UNCHANGED raised
    /\ UNCHANGED << input_data, teams, validation_report, validation_errors,
                    team_results, calc_calls, output, rating >>

NextFeedback == HandleFeedback

SpecFeedback == InitFeedback /\ [][NextFeedback]_vars

(***************************************************************************)
(* Properties.                                                             *)
(***************************************************************************)
\* validate_data has returned (it returns a report of at least four lines)
Returned == validation_report # << >>

\* the indices of the type/range errors of one (row, field) pair
PairErrors(i, field) ==
    {j \in DOMAIN validation_errors :
        /\ validation_errors[j].kind \in {"InvalidType", "InvalidValue"}
        /\ validation_errors[j].row = i
        /\ validation_errors[j].field = field}

\* the indices of the Missing errors of one (row, field) pair
PairMissing(i, field) ==
    {j \in DOMAIN validation_errors :
        /\ validation_errors[j].kind = "Missing"
        /\ validation_errors[j].row = i
        /\ validation_errors[j].field = field}

\* C1: calculate_metrics is called only after validate_data has returned an
\* empty error list for the whole batch; when the batch has any validation
\* error no record is calculated and process_input returns the validation
\* report alone.
C1_WholeBatchGate ==
    /\ calc_calls > 0 => Returned /\ validation_errors = << >>
    /\ (Returned /\ validation_errors # << >>) =>
          /\ calc_calls = 0
          /\ team_results = << >>
          /\ pc \in {"gate", "done"}
          /\ pc = "done" => output = Out("validation", "", validation_report, << >>)

\* a batch of two teams whose only errors are in the second one was
\* returned as a validation report
C1_Witness ==
    /\ pc = "done"
    /\ output.kind = "validation"
    /\ Len(teams) = 2
    /\ validation_errors # << >>
    /\ \A j \in DOMAIN validation_errors : validation_errors[j].row = 2

\* a value float() does not convert
Malformed(v) == v.t \in {"null", "list"} \/ v.s \notin DOMAIN TextValue

\* C2: validate_data never raises for malformed field values: it returns,
\* and every malformed value has an entry in errors.
C2_ValidateNeverRaises ==
    /\ ~(pc = "raised" /\ ~Returned)
    /\ Returned =>
          \A i \in DOMAIN teams : \A f \in DOMAIN numeric_fields :
              (numeric_fields[f] \in DOMAIN teams[i]
               /\ Malformed(teams[i][numeric_fields[f]]))
              => PairErrors(i, numeric_fields[f]) # {}

\* the value of a numeric field of a team, when it converts
FieldIsZero(team, k) ==
    /\ k \in DOMAIN team
    /\ py_float(team[k]).exc = "None"
    /\ IsZero(py_float(team[k]).val)

\* C3: when a batch passes validation and one record has
\* available_capacity = 0, process_input returns no report whose
\* utilization_rate, capacity_surplus_percentage, required_staff or
\* composite_score is infinite or NaN.
C3_ZeroCapacityExplicit ==
    (/\ pc = "done"
     /\ output.kind = "full"
     /\ \E i \in DOMAIN teams : FieldIsZero(teams[i], "available_capacity"))
    => \A j \in DOMAIN output.results :
          /\ IsFinite(output.results[j].utilization_rate)
          /\ IsFinite(output.results[j].capacity_surplus_percentage)
          /\ IsFinite(output.results[j].required_staff)
          /\ IsFinite(output.results[j].composite_score)

\* the rule of each numeric field as the schema states it
MeetsRule(field, value) ==
    IF field \in {"current_staff", "queries_per_day"}
    THEN IsFinite(value) /\ value.d = 1 /\ value.n > 0
    ELSE IF field \in {"average_query_time", "shift_hours"}
    THEN (IsInf(value) \/ IsFinite(value)) /\ value.n > 0
    ELSE IsFinite(value) /\ value.n >= 0 /\ value.n <= 100 * value.d

RuleText(field) ==
    IF field \in {"current_staff", "queries_per_day"} THEN "positive integer"
    ELSE IF field \in {"average_query_time", "shift_hours"} THEN "positive number"
    ELSE "value between 0 and 100"

\* C4: for every row and every numeric field present in it, at most one
\* type/range error is appended: 'Expected a numeric value' when the value
\* does not parse as a number, the field's range error when it parses and
\* violates the field's rule (NaN and the infinities included), none
\* otherwise.
C4_TypeRangePass ==
    (Returned /\ teams # << >>) =>
        \A i \in DOMAIN teams : \A f \in DOMAIN numeric_fields :
            LET field == numeric_fields[f]
                c     == py_float(teams[i][field])
                errs  == PairErrors(i, field)
            IN  field \in DOMAIN teams[i] =>
                  /\ Cardinality(errs) <= 1
                  /\ c.exc = "ValueError" =>
                        /\ errs # {}
                        /\ \A j \in errs :
                              validation_errors[j] =
                                  Err("InvalidType", field, i, "a numeric value")
                  /\ c.exc = "None" =>
                        IF MeetsRule(field, c.val) THEN errs = {}
                        ELSE /\ errs # {}
                             /\ \A j \in errs :
                                   validation_errors[j] =
                                       Err("InvalidValue", field, i, RuleText(field))


\* the presence lines of the report, in order
PresenceLines == SelectSeq(validation_report, LAMBDA l : l.tag = "presence")

\* C5: for a non-empty batch validate_data returns for, errors holds exactly one Missing entry for
\* each (row, schema field) pair whose field is absent from the row and
\* none for any other pair, and the report holds exactly one presence line
\* per schema field, reading 'missing' iff at least one row lacks the field.
C5_RequiredFieldCheck ==
    (Returned /\ teams # << >>) =>
        /\ \A i \in DOMAIN teams : \A f \in DOMAIN valid_fields :
              Cardinality(PairMissing(i, valid_fields[f])) =
                  IF valid_fields[f] \in DOMAIN teams[i] THEN 0 ELSE 1
        /\ \A j \in DOMAIN validation_errors :
              validation_errors[j].kind = "Missing" =>
                  /\ validation_errors[j].row \in DOMAIN teams
                  /\ validation_errors[j].field \in Range(valid_fields)
        /\ Len(PresenceLines) = Len(valid_fields)
        /\ \A f \in DOMAIN valid_fields :
              /\ PresenceLines[f].field = valid_fields[f]
              /\ PresenceLines[f].text =
                    IF \E i \in DOMAIN teams : valid_fields[f] \notin DOMAIN teams[i]
                    THEN "missing" ELSE "present"

\* two rows lack the same field, and a third field is present everywhere
C5_Witness ==
    /\ Returned
    /\ Len(teams) = 2
    /\ "average_query_time" \notin DOMAIN teams[1]
    /\ "average_query_time" \notin DOMAIN teams[2]
    /\ Cardinality({j \in DOMAIN validation_errors :
                       validation_errors[j].kind = "Missing"}) = 2
    /\ \E f \in DOMAIN PresenceLines : PresenceLines[f].text = "present"

\* C6: for an empty batch, errors is the single 'No teams found' entry,
\* the report has no required-field, type/value or summary section, and no
\* calculation is attempted.
C6_EmptyBatch ==
    (Returned /\ teams = << >>) =>
        /\ validation_errors = << Err("NoTeams", "", 0, "") >>
        /\ \A l \in DOMAIN validation_report :
              /\ validation_report[l].tag \notin
                    {"## Required Fields Check:", "## Data Type and Value Validation:",
                     "## Validation Summary:", "presence", "rollup", "error"}
        /\ calc_calls = 0
        /\ pc \in {"gate", "done"}
        /\ pc = "done" => output.kind = "validation" /\ output.results = << >>

C6_Witness ==
    /\ pc = "done"
    /\ teams = << >>
    /\ output.kind = "validation"
    /\ Len(validation_errors) = 1

FieldIndex(field) == CHOOSE f \in DOMAIN numeric_fields : numeric_fields[f] = field

\* the errors the summary section of the report lists, in order
SummaryErrors ==
    LET ls == SelectSeq(validation_report, LAMBDA l : l.tag = "error")
    IN  [j \in DOMAIN ls |-> ls[j].err]

\* C7: in errors every Missing entry precedes every type/range entry, the
\* type/range entries are in record order and, within a record, in the
\* schema's field order; the summary lists the same errors in that order.
C7_ErrorOrder ==
    (Returned /\ teams # << >>) =>
        /\ \A j, k \in DOMAIN validation_errors :
              (j < k /\ validation_errors[j].kind \in {"InvalidType", "InvalidValue"}) =>
                  /\ validation_errors[k].kind \in {"InvalidType", "InvalidValue"}
                  /\ validation_errors[j].row <= validation_errors[k].row
                  /\ validation_errors[j].row = validation_errors[k].row =>
                        FieldIndex(validation_errors[j].field)
                            < FieldIndex(validation_errors[k].field)
        /\ validation_errors # << >> => SummaryErrors = validation_errors

\* Missing entries of two fields, then two type/range entries in each of two rows
C7_Witness ==
    /\ Returned
    /\ Len(teams) = 2
    /\ \E j \in DOMAIN validation_errors : validation_errors[j].kind = "Missing"
    /\ \A i \in 1..2 : \E a, b \in Range(numeric_fields) :
          a # b /\ PairErrors(i, a) # {} /\ PairErrors(i, b) # {}
    /\ SummaryErrors = validation_errors

\* the three conditions of the decision rule, on the metrics of a result
MeetsAll(r) ==
    /\ FGe(r.composite_score, Int2F(60))
    /\ FGe(r.staffing_efficiency_ratio, Fin(9, 10))
    /\ FLe(r.staffing_efficiency_ratio, Fin(11, 10))
    /\ FLe(r.utilization_rate, Int2F(90))

\* C8: a team gets the 'maintain the current workforce distribution'
\* recommendation iff composite_score >= 60, 0.9 <= staffing_efficiency_ratio
\* <= 1.1 and utilization_rate <= 90, and the 'requires adjustments'
\* recommendation in every other case.
C8_DecisionRule ==
    \A j \in DOMAIN team_results :
        LET r == team_results[j]
        IN  r.recommendation =
                IF MeetsAll(r) THEN Maintain ELSE Adjust

\* a team meets the score and the utilization conditions and misses the
\* ratio condition alone; another has a ratio in range and a low score
C8_Witness ==
    /\ pc = "done"
    /\ output.kind = "full"
    /\ \E j \in DOMAIN output.results :
          /\ FGe(output.results[j].composite_score, Int2F(60))
          /\ FLe(output.results[j].utilization_rate, Int2F(90))
          /\ FGt(output.results[j].staffing_efficiency_ratio, Fin(11, 10))
          /\ output.results[j].recommendation = Adjust
    /\ \E j \in DOMAIN output.results :
          /\ output.results[j].staffing_efficiency_ratio = Fin(11, 10)
          /\ FLt(output.results[j].composite_score, Int2F(60))
          /\ output.results[j].recommendation = Adjust

\* C9 (as claimed): status is "Optimal" when is_optimal holds and
\* "NeedsAdjustment" otherwise.
C9_StatusAsClaimed ==
    \A j \in DOMAIN team_results :
        team_results[j].status =
            IF MeetsAll(team_results[j]) THEN "Optimal" ELSE "NeedsAdjustment"

\* C9: status is one of exactly two values, "Optimal" when is_optimal holds
\* and "Needs Adjustment" (two words) otherwise.
C9_Status ==
    \A j \in DOMAIN team_results :
        /\ team_results[j].status \in {"Optimal", "Needs Adjustment"}
        /\ team_results[j].status = "Optimal" <=> MeetsAll(team_results[j])

C9_Witness ==
    /\ pc = "done"
    /\ output.kind = "full"
    /\ \E j \in DOMAIN output.results :
          /\ ~MeetsAll(output.results[j])
          /\ output.results[j].status = "Needs Adjustment"

\* the record of the worked example
IsWorkedExample(r) ==
    /\ r.current_staff = Int2F(10)
    /\ r.queries_per_day = Int2F(150)
    /\ r.average_query_time = Int2F(3)
    /\ r.shift_hours = Int2F(8)
    /\ r.available_capacity = Int2F(70)
    /\ r.remote_infrastructure_efficiency = Int2F(80)

\* x rounds to c hundredths: it lies within half a hundredth of c / 100
Approx(x, c) == FLe(Fin(10 * c - 5, 1000), x) /\ FLe(x, Fin(10 * c + 5, 1000))

\* C10 (as claimed): the worked example yields workload_per_agent = 45.0,
\* agent_capacity = 336.0, utilization_rate ~ 13.39, composite_score ~ 62.26.
C10_WorkedExampleAsClaimed ==
    \A j \in DOMAIN team_results :
        IsWorkedExample(team_results[j]) =>
            /\ team_results[j].workload_per_agent = Int2F(45)
            /\ team_results[j].agent_capacity = Int2F(336)
            /\ Approx(team_results[j].utilization_rate, 1339)
            /\ Approx(team_results[j].composite_score, 6226)

\* C10: the worked example yields workload_per_agent = 45.0,
\* agent_capacity = 336.0, utilization_rate ~ 13.39 and
\* composite_score = 84.625.
C10_WorkedExample ==
    \A j \in DOMAIN team_results :
        IsWorkedExample(team_results[j]) =>
            /\ team_results[j].workload_per_agent = Int2F(45)
            /\ team_results[j].agent_capacity = Int2F(336)
            /\ Approx(team_results[j].utilization_rate, 1339)
            /\ team_results[j].composite_score = Fin(677, 8)

C10_Witness ==
    /\ pc = "done"
    /\ output.kind = "full"
    /\ \E j \in DOMAIN output.results : IsWorkedExample(output.results[j])


\* the acknowledgement of a rating k in 1..5
Ack(k) ==
    IF k = 1 THEN Ack1 ELSE IF k = 2 THEN Ack2 ELSE IF k = 3 THEN Ack3
    ELSE IF k = 4 THEN Ack4 ELSE Ack5

\* the responses the claim allows for a rating: the acknowledgement for an
\* integer 1..5, the re-prompt for every other input; a whole float, a
\* boolean or a text that reads as an integer 1..5 may get either
Allowed(r) ==
    IF r.t = "int" /\ r.v.n \in 1..5 THEN {Ack(r.v.n)}
    ELSE IF r.t \in {"float", "bool"} /\ IsFinite(r.v) /\ r.v.d = 1 /\ r.v.n \in 1..5
    THEN {Ack(r.v.n), Reprompt}
    ELSE IF r.t = "str" /\ r.s \in DOMAIN IntText /\ IntText[r.s] \in 1..5
    THEN {Ack(IntText[r.s]), Reprompt}
    ELSE {Reprompt}

\* C11: handle_feedback is total: an integer rating 1..5 returns its
\* acknowledgement (five distinct texts), every other input returns the
\* re-prompt, and no input makes it raise.
C11_FeedbackTotal ==
    /\ Cardinality({Ack(k) : k \in 1..5} \cup {Reprompt}) = 6
    /\ (rating # NoRating /\ pc # "feedback") =>
          /\ pc = "done"
          /\ raised = "None"
          /\ feedback \in Allowed(rating)


\* the rollup lines of the report, in order
RollupLines == SelectSeq(validation_report, LAMBDA l : l.tag = "rollup")

\* some row produced an error of any kind for the field
FieldHasError(field) ==
    \E j \in DOMAIN validation_errors :
        /\ validation_errors[j].kind \in {"Missing", "InvalidType", "InvalidValue"}
        /\ validation_errors[j].field = field

SaysSuccessful ==
    \E l \in DOMAIN validation_report :
        validation_report[l].tag = "Data validation is successful!"

\* C12: for a non-empty batch and each numeric field, the rollup line reads
\* 'validated' iff no row produced a type, range or missing-field error for
\* the field; the summary says 'Data validation is successful!' exactly
\* when all six rollup lines read 'validated' and all seven presence lines
\* read 'present'.
C12_Rollup ==
    (Returned /\ teams # << >>) =>
        /\ Len(RollupLines) = Len(numeric_fields)
        /\ \A f \in DOMAIN numeric_fields :
              /\ RollupLines[f].field = numeric_fields[f]
              /\ RollupLines[f].text =
                    IF FieldHasError(numeric_fields[f]) THEN "not valid" ELSE "validated"
        /\ SaysSuccessful <=>
              /\ \A f \in DOMAIN RollupLines : RollupLines[f].text = "validated"
              /\ \A f \in DOMAIN PresenceLines : PresenceLines[f].text = "present"


\* staffing_efficiency_ratio x utilization_rate of a result
RatioTimesRate(r) == FMul(r.staffing_efficiency_ratio, r.utilization_rate)

\* every numeric value of a result meets the rule of its field
MeetsSchema(r) == \A f \in DOMAIN numeric_fields : MeetsRule(numeric_fields[f], r[numeric_fields[f]])

=============================================================================
